---- MODULE Spec2Model ----
(***************************************************************************)
(* The run orchestrator runOb1 (orchestrator part of src/src/git.ts) with  *)
(* its collaborators: credential pre-flight (util/env), the git helpers,   *)
(* the run ledger (RunLogger) and the p-limit scheduler.                   *)
(*                                                                         *)
(* One run is modelled from the call of runOb1 to its return or throw.     *)
(* Every await of the source is a step; a step that throws inside the      *)
(* worker's try block runs the synchronous head of the catch block in the  *)
(* same step, as JavaScript does.                                          *)
(***************************************************************************)
EXTENDS Integers, Sequences, FiniteSets, TLC

\* Longest --agents list the model draws.
MaxRequested == 2
\* Largest concurrency bound k the model draws.
MaxK == 2
\* Most runs whose identifiers are compared.
MaxRuns == 2
\* Last second of the clock the identifiers are made in.
MaxSeconds == 2
\* Longest digit string of Math.random().toString(36) the model draws.
MaxDigits == 5

Min(a, b) == IF a < b THEN a ELSE b

Range(s) == {s[i] : i \in DOMAIN s}

SeqsUpTo(S, n) == UNION {[1..m -> S] : m \in 0..n}

(***************************************************************************)
(* agents/index: the known agents, in their declared order.                *)
(***************************************************************************)
ALL_AGENTS == <<"codex", "claude", "cursor", "qa">>

\* Names a caller may pass in --agents: known ones and an unknown one.
RequestableNames == {"claude", "cursor", "qa", "bogus"}

(***************************************************************************)
(* util/env: the credentials each agent needs, and the pre-flight check.   *)
(***************************************************************************)
AGENT_ENV_KEYS(agent) ==
    CASE agent = "claude" -> {"CLAUDE_API_KEY"}
      [] agent = "codex"  -> {"CODEX_CLI_KEY", "OPENAI_API_KEY"}
      [] agent = "cursor" -> {"CURSOR_API_KEY"}
      [] agent = "qa"     -> {"CLAUDE_API_KEY"}
      [] OTHER            -> {}

AllKeys == {"CLAUDE_API_KEY", "ANTHROPIC_API_KEY", "CODEX_CLI_KEY",
            "OPENAI_API_KEY", "CURSOR_API_KEY", "GITHUB_TOKEN"}

\* The environments the model draws: complete, or lacking one credential.
EnvCases == {AllKeys,
             AllKeys \ {"GITHUB_TOKEN"},
             AllKeys \ {"CLAUDE_API_KEY"},
             AllKeys \ {"CURSOR_API_KEY"}}

\* assertRequiredEnv: TRUE when it returns, FALSE when it throws.
assertRequiredEnv(keys, e) == \A key \in keys : key \in e

\* assertAgentEnv: TRUE when it returns, FALSE when it throws.
assertAgentEnv(agents, e) ==
    LET requiredKeys == UNION {AGENT_ENV_KEYS(agents[i]) : i \in DOMAIN agents}
                          \cup {"GITHUB_TOKEN"}
    IN IF "CLAUDE_API_KEY" \in requiredKeys
          /\ "CLAUDE_API_KEY" \notin e /\ "ANTHROPIC_API_KEY" \notin e
       THEN FALSE
       ELSE assertRequiredEnv(requiredKeys \ {"CLAUDE_API_KEY"}, e)

\* runner.checkEnv() of each agent: TRUE when it returns, FALSE when it throws.
checkEnv(agent, e) ==
    CASE agent = "claude" -> "CLAUDE_API_KEY" \in e
      [] agent = "codex"  -> "OPENAI_API_KEY" \in e
      [] agent = "cursor" -> "CURSOR_API_KEY" \in e
      [] agent = "qa"     -> "ANTHROPIC_API_KEY" \in e \/ "CLAUDE_API_KEY" \in e
      [] OTHER            -> TRUE

(***************************************************************************)
(* runOb1: which agents run.                                               *)
(***************************************************************************)
\* options.agents?.length ? options.agents.filter(known) : [...ALL_AGENTS]
requestedAgents(agents) ==
    IF Len(agents) > 0
    THEN SelectSeq(agents, LAMBDA a : a \in Range(ALL_AGENTS))
    ELSE ALL_AGENTS

\* The selection without the slice: every requested agent is kept.
selectedAgentsUntruncated(req, bound) == req

\* requestedAgents.slice(0, Math.min(options.k, requestedAgents.length))
selectedAgents(req, bound) == SubSeq(req, 1, Min(bound, Len(req)))

\* ensureCleanRepo with the negation of allowDirty dropped.
ensureCleanRepoNegationDropped(isClean, allowDirty) == ~(allowDirty /\ ~isClean)

\* ensureCleanRepo: TRUE when it returns, FALSE when it throws.
ensureCleanRepo(isClean, allowDirty) == ~(~allowDirty /\ ~isClean)

\* The run identifier of this run (makeTaskId's result).
taskId == "t1"

\* `agent/${agent}/${taskId}` for a given run identifier.
branchIn(agent, id) == <<"agent", agent, id>>

\* path.join(workRoot, agent, taskId) for a given run identifier.
worktreeDirIn(agent, id) == <<"work", agent, id>>

\* `agent/${agent}/${taskId}`
branchOf(agent) == branchIn(agent, taskId)

\* path.join(workRoot, agent, taskId)
worktreeDirOf(agent) == worktreeDirIn(agent, taskId)

\* Base-36 digits Math.random().toString(36) is drawn from (a sample).
Base36Digits == {"a", "b"}

\* The digit strings after "0." of Math.random().toString(36): 0.5 gives one
\* digit, most values give more than four.
RandomDigits == SeqsUpTo(Base36Digits, MaxDigits)

\* new Date().toISOString().replace(/[-:T]/g, '').slice(0, 15): the date and
\* the time down to the second; the milliseconds are cut off.
timestampOf(date) == date.sec

\* Math.random().toString(36).slice(2, 6): at most four digits after "0.".
randomOf(digits) == SubSeq(digits, 1, Min(4, Len(digits)))

\* makeTaskId: `${timestamp}-${random}`
makeTaskId(date, digits) == <<timestampOf(date), randomOf(digits)>>

\* repoDir: the root of the main checkout of the target repository.
repoDir == <<"repo">>

\* The timer ClaudeRunner, CodexRunner and CursorRunner set: 10 minutes.
DefaultTimeoutMs == 600000

\* The timer QaRunner sets: 15 minutes.
QaTimeoutMs == 900000

\* A --timeout-ms value a caller passes.
OverrideMs == 300000

\* const timeoutMs of each runner's run(): what bounds its execution.
timeoutMsOf(agent) == IF agent = "qa" THEN QaTimeoutMs ELSE DefaultTimeoutMs

\* Whether the runner's timer covers the whole of run().  CursorRunner reads
\* the clock only at the head of its polling loop: its git push, git fetch
\* and API requests are awaited without any timer.
timerCoversRun(agent) == agent # "cursor"

VARIABLES
    options,            \* OrchestratorOptions: agents, k, dryRun, allowDirty,
                        \* timeoutMs (0: not given)
    env,                \* process.env: the credentials that are set
    repoClean,          \* git status of the target repository is clean
    hasRemote,          \* the target repository has a git remote
    ignoresArtifacts,   \* its .gitignore covers .ob1/ and ob1_result_*.md
    pc,                 \* where runOb1 is
    thrown,             \* what runOb1 threw to its caller ("none": nothing)
    requested,          \* requestedAgents
    selected,           \* selectedAgents
    runRootCreated,     \* runs/<taskId>/ exists
    repoInfo,           \* getRepoInfo's result is non-null
    log,                \* run.jsonl: the events appended
    worktrees,          \* registered worktrees: <<path, branch checked out>>
    tree,               \* uncommitted files of the worktrees and of the main
                        \* checkout: <<path, file>>
    commits,            \* branches that carry a commit made by the run
    provisionFailed,    \* index in selected whose createWorktree threw, or 0
    agentContexts,      \* the AgentContext list
    limit,              \* pLimit's concurrency (0: not created yet)
    queue,              \* p-limit's queue of context indexes not yet started
    w,                  \* per context: the worker's position and locals, and
                        \* whether its agent edited a file outside .ob1/
    executionSummaries, \* the AgentExecutionSummary list
    failure,            \* the first captured failure: <<agent, error>>, <<>> for null
    summaryFile,        \* summary.json: the agent lists written, in order
    pushed,             \* branches pushed to the remote
    prs,                \* branches a pull request was opened for
    console,            \* the final per-agent lines printed: <<agent, text>>
    now,                \* the clock new Date() reads: [sec, ms]
    taskIds             \* the run identifiers made by successive runs

vars == <<options, env, repoClean, hasRemote, ignoresArtifacts, pc, thrown,
          requested, selected, runRootCreated, repoInfo, log, worktrees, tree,
          commits, provisionFailed, agentContexts, limit, queue, w,
          executionSummaries, failure, summaryFile, pushed, prs, console, now,
          taskIds>>

\* The clock and the identifiers of other runs are not touched by a run.
inputs == <<options, env, repoClean, hasRemote, ignoresArtifacts, now, taskIds>>

\* What the pre-flight steps leave alone.
runState == <<log, worktrees, tree, commits, provisionFailed, agentContexts,
              limit, queue, w, executionSummaries, failure, summaryFile,
              pushed, prs, console>>

\* k read one too high (an off-by-one on the bound).
kOffByOne == options.k + 1

\* OrchestratorOptions.k, as read by runOb1 for the slice and for pLimit.
k == options.k

Init ==
    /\ options \in [agents : SeqsUpTo(RequestableNames, MaxRequested),
                    k : 1..MaxK,
                    dryRun : BOOLEAN,
                    allowDirty : BOOLEAN,
                    timeoutMs : {0, OverrideMs}]
    /\ env \in EnvCases
    /\ repoClean \in BOOLEAN
    /\ hasRemote \in BOOLEAN
    /\ ignoresArtifacts \in BOOLEAN
    \* Inputs that no step reads are drawn once: the remote in a dry run
    \* without the cursor agent, --allow-dirty on a clean repository.
    /\ (options.dryRun /\ "cursor" \notin Range(options.agents)) => ~hasRemote
    /\ options.allowDirty => ~repoClean
    \* --timeout-ms is drawn on runs of a clean repository without --allow-dirty.
    /\ options.timeoutMs # 0 => (repoClean /\ ~options.allowDirty)
    /\ pc = "assertAgentEnv"
    /\ thrown = "none"
    /\ requested = <<>>
    /\ selected = <<>>
    /\ runRootCreated = FALSE
    /\ repoInfo = FALSE
    /\ log = <<>>
    \* What an earlier run left at the path of the claude agent's worktree: a
    \* registered worktree, files in the directory, both or nothing.  Leftovers
    \* are drawn on dry runs of a clean repository with every credential set.
    /\ worktrees \in {{}, {<<worktreeDirOf("claude"), branchOf("claude")>>}}
    /\ tree \in {{}, {<<worktreeDirOf("claude"), "residue">>}}
    /\ (worktrees # {} \/ tree # {}) =>
          /\ options.dryRun /\ repoClean /\ ~options.allowDirty
          /\ options.timeoutMs = 0 /\ ~ignoresArtifacts
          /\ env = AllKeys
          /\ "claude" \in Range(options.agents)
    /\ commits = {}
    /\ provisionFailed = 0
    /\ agentContexts = <<>>
    /\ limit = 0
    /\ queue = <<>>
    /\ w = <<>>
    /\ executionSummaries = <<>>
    /\ failure = <<>>
    /\ summaryFile = <<>>
    /\ pushed = {}
    /\ prs = {}
    /\ console = <<>>
    /\ now = [sec |-> 0, ms |-> 0]
    /\ taskIds = <<>>

\* runOb1 throws `what` to its caller from its own body.
Abort(what) ==
    /\ pc' = "aborted"
    /\ thrown' = what

(***************************************************************************)
(* runOb1, pre-flight: lines 291-341 of the orchestrator.                  *)
(***************************************************************************)
\* ensureEnvLoaded(); requestedAgents = ...; assertAgentEnv(requestedAgents)
AssertAgentEnv ==
    /\ pc = "assertAgentEnv"
    /\ requested' = requestedAgents(options.agents)
    /\ IF assertAgentEnv(requested', env)
       THEN pc' = "resolveRepo" /\ thrown' = thrown
       ELSE Abort("env")
    /\ UNCHANGED <<inputs, selected, runRootCreated, repoInfo, runState>>

\* repoDir = await getRepoRoot(options.repo) (or ensureGitHubRepo), which may
\* throw; then await ensureCleanRepo(repoDir, options.allowDirty).
EnsureCleanRepo ==
    /\ pc = "resolveRepo"
    /\ \/ Abort("repo")
       \/ IF ensureCleanRepo(repoClean, options.allowDirty)
          THEN pc' = "ensureDirs" /\ thrown' = thrown
          ELSE Abort("dirty")
    /\ UNCHANGED <<inputs, requested, selected, runRootCreated, repoInfo, runState>>

\* taskId = makeTaskId(); await ensureDir(runRoot); await ensureDir(workRoot)
EnsureDirs ==
    /\ pc = "ensureDirs"
    /\ runRootCreated' = TRUE
    /\ pc' = "selectAgents"
    /\ UNCHANGED <<inputs, thrown, requested, selected, repoInfo, runState>>

\* getRepoInfo called whether dry-run is set or not.
SelectAgentsAlwaysRepoInfo ==
    /\ pc = "selectAgents"
    /\ IF Len(requested) = 0
       THEN /\ Abort("noAgents")
            /\ UNCHANGED <<selected, repoInfo>>
       ELSE /\ selected' = selectedAgents(requested, k)
            /\ IF hasRemote
               THEN /\ repoInfo' = TRUE
                    /\ pc' = "logStart" /\ thrown' = thrown
               ELSE /\ repoInfo' = FALSE
                    /\ Abort("noRemote")
    /\ UNCHANGED <<inputs, requested, runRootCreated, runState>>

\* The empty-selection check, the slice, and getRepoInfo unless dry-run.
SelectAgents ==
    /\ pc = "selectAgents"
    /\ IF Len(requested) = 0
       THEN /\ Abort("noAgents")
            /\ UNCHANGED <<selected, repoInfo>>
       ELSE /\ selected' = selectedAgents(requested, k)
            /\ IF options.dryRun
               THEN /\ repoInfo' = FALSE
                    /\ pc' = "logStart" /\ thrown' = thrown
               ELSE IF hasRemote
                    THEN /\ repoInfo' = TRUE
                         /\ pc' = "logStart" /\ thrown' = thrown
                    ELSE /\ repoInfo' = FALSE
                         /\ Abort("noRemote")
    /\ UNCHANGED <<inputs, requested, runRootCreated, runState>>

(***************************************************************************)
(* The run ledger.  RunLogger.log appends one line to run.jsonl; the       *)
(* append (fs.appendFile) either succeeds or throws, and log() has no      *)
(* handler of its own.                                                     *)
(***************************************************************************)
RunLoggerLog(event, agent) == log' = Append(log, <<event, agent>>)

\* logger.log({event: 'start', ...})
LogStart ==
    /\ pc = "logStart"
    /\ \/ /\ RunLoggerLog("start", "run")
          /\ pc' = "provision" /\ thrown' = thrown
       \/ /\ Abort("ledger")
          /\ log' = log
    /\ UNCHANGED <<inputs, requested, selected, runRootCreated, repoInfo,
                   worktrees, tree, commits, provisionFailed, agentContexts,
                   limit, queue, w, executionSummaries, failure, summaryFile,
                   pushed, prs, console>>

(***************************************************************************)
(* Provisioning: one pass of the for loop of lines 343-366.                *)
(***************************************************************************)
\* git worktree remove <dir> --force; git worktree add -B <branch> <dir> <base>
createWorktree(wts, dir, branch) ==
    {x \in wts : x[1] # dir} \cup {<<dir, branch>>}

\* execa('git', ['worktree', 'remove', worktreeDir, '--force'], {reject:
\* false}): a registered worktree goes with every file of its directory; on
\* a path that is no registered worktree git fails, the failure is ignored
\* and the directory stays as it is.  The files left at the paths.
worktreeRemove(wts, files, dir) ==
    IF \E x \in wts : x[1] = dir
    THEN {x \in files : x[1] # dir}
    ELSE files

\* git worktree add on a directory that exists and is not empty fails with
\* `'<dir>' already exists`; ensureDir before it creates the directory but
\* does not empty it.
worktreeAddFails(files, dir) == \E x \in files : x[1] = dir

Provision ==
    /\ pc = "provision"
    /\ Len(agentContexts) < Len(selected)
    /\ LET agent == selected[Len(agentContexts) + 1]
           branch == branchOf(agent)
           worktreeDir == worktreeDirOf(agent)
       IN \/ /\ ~worktreeAddFails(worktreeRemove(worktrees, tree, worktreeDir),
                                  worktreeDir)
             /\ worktrees' = createWorktree(worktrees, worktreeDir, branch)
             \* a fresh checkout, then .ob1/scratchpad.md and .ob1/todo.md
             /\ tree' = worktreeRemove(worktrees, tree, worktreeDir)
                          \cup {<<worktreeDir, "ob1">>}
             /\ agentContexts' = Append(agentContexts,
                    [name |-> agent, dir |-> worktreeDir, branch |-> branch])
             /\ UNCHANGED <<pc, thrown, provisionFailed>>
          \/ \* git worktree add refuses the directory: the loop has no handler
             /\ worktreeAddFails(worktreeRemove(worktrees, tree, worktreeDir),
                                 worktreeDir)
             /\ Abort("exists")
             /\ provisionFailed' = Len(agentContexts) + 1
             /\ UNCHANGED <<worktrees, tree, agentContexts>>
          \/ \* createWorktree throws: the loop has no handler
             /\ Abort("worktree")
             /\ provisionFailed' = Len(agentContexts) + 1
             /\ UNCHANGED <<worktrees, tree, agentContexts>>
    /\ UNCHANGED <<inputs, requested, selected, runRootCreated, repoInfo, log,
                   commits, limit, queue, w, executionSummaries, failure,
                   summaryFile, pushed, prs, console>>

(***************************************************************************)
(* Scheduling: limit = pLimit(options.k); every context is handed to       *)
(* limit(), which queues it; Promise.all awaits the workers.               *)
(***************************************************************************)
NewWorker == [pc |-> "queued", overdue |-> FALSE, runPromise |-> "none",
              hasMeaningful |-> TRUE, commitSha |-> "none",
              prUrl |-> "none", fallbackFile |-> FALSE, changedFiles |-> 0,
              error |-> "none", edited |-> FALSE, timer |-> "none"]

Schedule ==
    /\ pc = "provision"
    /\ Len(agentContexts) = Len(selected)
    /\ limit' = k
    /\ queue' = [i \in 1..Len(agentContexts) |-> i]
    /\ w' = [i \in 1..Len(agentContexts) |-> NewWorker]
    /\ executionSummaries' = <<>>
    /\ failure' = <<>>
    /\ pc' = "awaitAll"
    /\ UNCHANGED <<inputs, thrown, requested, selected, runRootCreated,
                   repoInfo, log, worktrees, tree, commits, provisionFailed,
                   agentContexts, summaryFile, pushed, prs, console>>

\* A worker is active from the moment p-limit starts it until it settles.
IsActive(i) == w[i].pc \notin {"queued", "settled", "rejected"}

activeCount == Cardinality({i \in DOMAIN w : IsActive(i)})

\* p-limit starts the head of its queue while activeCount < concurrency.
Admit ==
    /\ queue # <<>>
    /\ activeCount < limit
    /\ w' = [w EXCEPT ![Head(queue)].pc = "logAgentStart"]
    /\ queue' = Tail(queue)
    /\ UNCHANGED <<inputs, pc, thrown, requested, selected, runRootCreated,
                   repoInfo, log, worktrees, tree, commits, provisionFailed,
                   agentContexts, limit, executionSummaries, failure,
                   summaryFile, pushed, prs, console>>

(***************************************************************************)
(* The worker of one context: the body of limit(async () => {...}),        *)
(* lines 375-482.                                                          *)
(***************************************************************************)
\* What a worker step leaves alone besides w, log, executionSummaries.
mainState == <<inputs, pc, thrown, requested, selected, runRootCreated,
               repoInfo, worktrees, provisionFailed, agentContexts, limit,
               queue, summaryFile>>

\* The success summary with result.fallbackFile left out.
SuccessSummaryWithoutFallback(i) ==
    [agent |-> agentContexts[i].name,
     branch |-> agentContexts[i].branch,
     worktreePath |-> agentContexts[i].dir,
     commitSha |-> w[i].commitSha,
     prUrl |-> "none",
     fallbackFile |-> FALSE,
     changedFiles |-> w[i].changedFiles,
     error |-> "none"]

\* The summary pushed at the end of the try block (lines 455-464).
SuccessSummary(i) ==
    [agent |-> agentContexts[i].name,
     branch |-> agentContexts[i].branch,
     worktreePath |-> agentContexts[i].dir,
     commitSha |-> w[i].commitSha,
     prUrl |-> "none",
     fallbackFile |-> w[i].fallbackFile,
     changedFiles |-> w[i].changedFiles,
     error |-> "none"]

\* The summary pushed by the catch block (lines 469-475).
FailureSummary(i, message) ==
    [agent |-> agentContexts[i].name,
     branch |-> agentContexts[i].branch,
     worktreePath |-> agentContexts[i].dir,
     commitSha |-> "none",
     prUrl |-> "none",
     fallbackFile |-> FALSE,
     changedFiles |-> 0,
     error |-> message]

\* A throw inside the try block: the catch block pushes the failure summary
\* at once and then awaits logger.log({event: 'agent:error'}).
Catch(i, message) ==
    /\ executionSummaries' = Append(executionSummaries, FailureSummary(i, message))
    /\ w' = [w EXCEPT ![i].pc = "logAgentError", ![i].error = message]

\* The same throw after the locals of the try block were set as in `locals`.
CatchWith(locals, i, message) ==
    /\ executionSummaries' = Append(executionSummaries, FailureSummary(i, message))
    /\ w' = [locals EXCEPT ![i].pc = "logAgentError", ![i].error = message]

\* await logger.log({event: 'agent:start', ...})
LogAgentStart(i) ==
    /\ w[i].pc = "logAgentStart"
    /\ \/ /\ RunLoggerLog("agent:start", i)
          /\ w' = [w EXCEPT ![i].pc = "run"]
          /\ UNCHANGED executionSummaries
       \/ /\ Catch(i, "ledger")
          /\ UNCHANGED log
    /\ UNCHANGED <<mainState, tree, commits, failure, pushed, prs, console>>

\* What runner.run may do: change files, change nothing, throw, time out.
RunOutcomes == {"changes", "nochanges", "exec", "timeout"}

\* The budget of a run passes while run() awaits something no timer covers;
\* where the timer covers run(), its firing is the "timeout" outcome.
BudgetElapses(i) ==
    /\ w[i].pc = "run"
    /\ checkEnv(agentContexts[i].name, env)
    /\ ~timerCoversRun(agentContexts[i].name)
    /\ ~w[i].overdue
    /\ w' = [w EXCEPT ![i].overdue = TRUE]
    /\ UNCHANGED <<mainState, log, executionSummaries, tree, commits, failure,
                   pushed, prs, console>>

\* A runPromise that lost the race goes on: the Codex thread edits files of
\* its working directory, or ends without another edit.
RunPromiseGoesOn(i) ==
    /\ w[i].runPromise = "running"
    /\ \/ /\ tree' = tree \cup {<<agentContexts[i].dir, "real">>}
          /\ w' = [w EXCEPT ![i].runPromise = "wrote"]
       \/ /\ w' = [w EXCEPT ![i].runPromise = "none"]
          /\ UNCHANGED tree
    /\ UNCHANGED <<mainState, log, executionSummaries, commits, failure,
                   pushed, prs, console>>

\* git status of a worktree: its uncommitted files that are not ignored.
status(tr, dir) ==
    {x[2] : x \in {y \in tr : y[1] = dir}}
      \ (IF ignoresArtifacts THEN {"ob1", "fallback"} ELSE {})

\* `${context.branch}-base`
baseBranchOf(branch) == Append(branch, "base")

\* CursorRunner.run: getRepositoryUrl (throws without a remote), commitWorktree
\* (git add . and a commit unless the status is clean), pushBaseBranch, the
\* cloud agent with its polling, pullCursorChanges (fetch, reset --hard).
CursorRun(i) ==
    LET dir == agentContexts[i].dir
        branch == agentContexts[i].branch
        clean == status(tree, dir) = {}
        treeCommitted == IF clean THEN tree ELSE {x \in tree : x[1] # dir}
        committed == IF clean THEN commits ELSE commits \cup {branch}
        \* run() is over: its elapsed time is of no account any more
        ended == [w EXCEPT ![i].overdue = FALSE]
    IN IF ~hasRemote
       THEN /\ CatchWith(ended, i, "exec")
            /\ UNCHANGED <<tree, commits, pushed>>
       ELSE /\ tree' = treeCommitted
            /\ \/ \* git push throws
                  /\ CatchWith(ended, i, "exec")
                  /\ commits' = committed
                  /\ UNCHANGED pushed
               \/ /\ pushed' = pushed \cup {baseBranchOf(branch)}
                  /\ \E outcome \in RunOutcomes :
                       CASE outcome = "changes" ->
                              \* the cloud agent's commits, brought in by
                              \* fetch and reset --hard: the status is clean
                              /\ commits' = committed \cup {branch}
                              /\ w' = [ended EXCEPT ![i].pc = "inspect",
                                                    ![i].edited = TRUE]
                              /\ UNCHANGED executionSummaries
                         [] outcome = "nochanges" ->
                              /\ commits' = committed
                              /\ w' = [ended EXCEPT ![i].pc = "inspect"]
                              /\ UNCHANGED executionSummaries
                         [] OTHER ->
                              /\ commits' = committed
                              /\ CatchWith(ended, i, outcome)

\* What is left of the agent's work when its timer has fired.  ClaudeRunner
\* and QaRunner abort the SDK query through their AbortController;
\* CodexRunner only loses Promise.race([runPromise, timeoutPromise]) and
\* nothing stops runPromise, which goes on in the worktree.
runPromiseAfterTimeout(agent) == IF agent = "codex" THEN "running" ELSE "none"

\* The setTimeout of a run() that ended before the timer fired.  ClaudeRunner
\* and QaRunner keep the timer id and call clearTimeout on their way out, by
\* return or by throw; CodexRunner keeps no id of the timer inside
\* timeoutPromise and never clears it.
timerAfterRun(agent) == IF agent = "codex" THEN "armed" ELSE "none"

\* A timer left armed fires when its delay is over: it rejects timeoutPromise,
\* which nothing awaits any more.
TimerFires(i) ==
    /\ w[i].timer = "armed"
    /\ w' = [w EXCEPT ![i].timer = "none"]
    /\ UNCHANGED <<mainState, log, executionSummaries, tree, commits, failure,
                   pushed, prs, console>>

\* runner.checkEnv(); result = await runner.run(context); the notes.
RunAgent(i) ==
    /\ w[i].pc = "run"
    /\ IF ~checkEnv(agentContexts[i].name, env)
       THEN /\ Catch(i, "env")
            /\ UNCHANGED <<tree, commits, pushed>>
       ELSE IF agentContexts[i].name = "cursor"
       THEN CursorRun(i)
       ELSE /\ \E outcome \in RunOutcomes :
                 CASE outcome = "changes" ->
                        /\ tree' = tree \cup {<<agentContexts[i].dir, "real">>}
                        /\ w' = [w EXCEPT ![i].pc = "inspect", ![i].edited = TRUE,
                                          ![i].timer = timerAfterRun(agentContexts[i].name)]
                        /\ UNCHANGED executionSummaries
                   [] outcome = "nochanges" ->
                        /\ w' = [w EXCEPT ![i].pc = "inspect",
                                          ![i].timer = timerAfterRun(agentContexts[i].name)]
                        /\ UNCHANGED <<tree, executionSummaries>>
                   [] outcome = "timeout" ->
                        \* the timer has fired
                        /\ CatchWith([w EXCEPT ![i].runPromise =
                                          runPromiseAfterTimeout(agentContexts[i].name)],
                                     i, outcome)
                        /\ UNCHANGED tree
                   [] OTHER ->
                        /\ CatchWith([w EXCEPT ![i].timer =
                                          timerAfterRun(agentContexts[i].name)],
                                     i, outcome)
                        /\ UNCHANGED tree
            /\ UNCHANGED <<commits, pushed>>
    /\ UNCHANGED <<mainState, log, failure, prs, console>>

\* status.files.some((file) => !file.path.startsWith('.ob1/'))
hasMeaningfulChanges(files) == files \ {"ob1"} # {}

\* Lines 389-407: the change inspection, the fallback file, the no-change throw.
Inspect(i) ==
    /\ w[i].pc = "inspect"
    /\ LET dir == agentContexts[i].dir
           fallback == ~hasMeaningfulChanges(status(tree, dir))
           after == IF fallback THEN tree \cup {<<dir, "fallback">>} ELSE tree
       IN /\ tree' = after
          /\ IF status(after, dir) = {}
             THEN CatchWith([w EXCEPT ![i].hasMeaningful = ~fallback,
                                      ![i].fallbackFile = fallback],
                            i, "nochange")
             ELSE /\ w' = [w EXCEPT ![i].pc = "commit",
                                    ![i].hasMeaningful = ~fallback,
                                    ![i].fallbackFile = fallback,
                                    ![i].changedFiles = Cardinality(status(after, dir))]
                  /\ UNCHANGED executionSummaries
    /\ UNCHANGED <<mainState, log, commits, failure, pushed, prs, console>>

\* What commitAll gives back: a commit id, nothing, or a throw.
CommitOutcomes == {"sha", "none", "throw"}

\* The check of commitAll's result left out.
commitFailedUnchecked(commitSha) == FALSE

\* if (!commitSha) throw new Error('Failed to create commit.')
commitFailed(commitSha) == commitSha = "none"

\* commitAll with `if (!commitSha) throw` left out.
CommitWithoutCheck(i) ==
    /\ w[i].pc = "commit"
    /\ \E commitSha \in CommitOutcomes :
         IF commitSha = "throw"
         THEN /\ Catch(i, "commit")
              /\ UNCHANGED <<tree, commits>>
         ELSE /\ w' = [w EXCEPT ![i].pc = "publish", ![i].commitSha = commitSha]
              /\ tree' = IF commitSha = "sha"
                         THEN {x \in tree : x[1] # agentContexts[i].dir}
                         ELSE tree
              /\ commits' = IF commitSha = "sha"
                            THEN commits \cup {agentContexts[i].branch}
                            ELSE commits
              /\ UNCHANGED executionSummaries
    /\ UNCHANGED <<mainState, log, failure, pushed, prs, console>>

\* Lines 409-417: commitAll and the check of its result.
Commit(i) ==
    /\ w[i].pc = "commit"
    /\ \E commitSha \in CommitOutcomes :
         IF commitSha = "throw" \/ commitFailed(commitSha)
         THEN /\ Catch(i, "commit")
              /\ UNCHANGED <<tree, commits>>
         ELSE /\ w' = [w EXCEPT ![i].pc = "publish", ![i].commitSha = commitSha]
              /\ tree' = IF commitSha = "sha"
                         THEN {x \in tree : x[1] # agentContexts[i].dir}
                         ELSE tree
              /\ commits' = IF commitSha = "sha"
                            THEN commits \cup {agentContexts[i].branch}
                            ELSE commits
              /\ UNCHANGED executionSummaries
    /\ UNCHANGED <<mainState, log, failure, pushed, prs, console>>

\* The summary built without its prUrl.
CompleteWithoutPrUrl(i, prUrl) ==
    /\ executionSummaries' = Append(executionSummaries, SuccessSummary(i))
    /\ w' = [w EXCEPT ![i].pc = "logAgentSuccess"]

\* The end of the try block: `ob1 run completed`, the summary, pushed.
Complete(i, prUrl) ==
    /\ executionSummaries' =
         Append(executionSummaries, [SuccessSummary(i) EXCEPT !.prUrl = prUrl])
    /\ w' = [w EXCEPT ![i].pc = "logAgentSuccess", ![i].prUrl = prUrl]

\* The publish block without its isQaAgent branch.
PublishQaLikeOthers(i) ==
    /\ w[i].pc = "publish"
    /\ IF ~options.dryRun /\ repoInfo
       THEN \/ /\ pushed' = pushed \cup {agentContexts[i].branch}
               /\ w' = [w EXCEPT ![i].pc = "createPullRequest"]
               /\ UNCHANGED executionSummaries
            \/ /\ Catch(i, "push")
               /\ UNCHANGED pushed
       ELSE /\ Complete(i, "none")
            /\ UNCHANGED pushed
    /\ UNCHANGED <<mainState, log, tree, commits, failure, prs, console>>

\* Lines 419-429: qa publishes nothing, a dry run publishes nothing,
\* otherwise the branch is pushed (pushBranch may throw).
Publish(i) ==
    /\ w[i].pc = "publish"
    /\ IF agentContexts[i].name = "qa"
       THEN /\ Complete(i, "none")
            /\ UNCHANGED pushed
       ELSE IF ~options.dryRun /\ repoInfo
            THEN \/ /\ pushed' = pushed \cup {agentContexts[i].branch}
                    /\ w' = [w EXCEPT ![i].pc = "createPullRequest"]
                    /\ UNCHANGED executionSummaries
                 \/ /\ Catch(i, "push")
                    /\ UNCHANGED pushed
            ELSE /\ Complete(i, "none")
                 /\ UNCHANGED pushed
    /\ UNCHANGED <<mainState, log, tree, commits, failure, prs, console>>

\* Lines 431-448: createPullRequest, which may throw.
CreatePullRequest(i) ==
    /\ w[i].pc = "createPullRequest"
    /\ \/ /\ prs' = prs \cup {agentContexts[i].branch}
          /\ Complete(i, "url")
       \/ /\ Catch(i, "pr")
          /\ UNCHANGED prs
    /\ UNCHANGED <<mainState, log, tree, commits, failure, pushed, console>>

\* await logger.log({event: 'agent:success', ...}), still inside the try.
LogAgentSuccess(i) ==
    /\ w[i].pc = "logAgentSuccess"
    /\ \/ /\ RunLoggerLog("agent:success", i)
          /\ w' = [w EXCEPT ![i].pc = "settled"]
          /\ UNCHANGED executionSummaries
       \/ /\ Catch(i, "ledger")
          /\ UNCHANGED log
    /\ UNCHANGED <<mainState, tree, commits, failure, pushed, prs, console>>

\* The catch block with `failure = error` unguarded: the last failure wins.
LogAgentErrorLastWins(i) ==
    /\ w[i].pc = "logAgentError"
    /\ \/ /\ RunLoggerLog("agent:error", i)
          /\ w' = [w EXCEPT ![i].pc = "settled"]
          /\ failure' = <<agentContexts[i].name, w[i].error>>
       \/ /\ w' = [w EXCEPT ![i].pc = "rejected"]
          /\ UNCHANGED <<log, failure>>
    /\ UNCHANGED <<mainState, executionSummaries, tree, commits, pushed, prs, console>>

\* The catch block without `if (!failure) failure = error`.
LogAgentErrorNoCapture(i) ==
    /\ w[i].pc = "logAgentError"
    /\ \/ /\ RunLoggerLog("agent:error", i)
          /\ w' = [w EXCEPT ![i].pc = "settled"]
          /\ UNCHANGED failure
       \/ /\ w' = [w EXCEPT ![i].pc = "rejected"]
          /\ UNCHANGED <<log, failure>>
    /\ UNCHANGED <<mainState, executionSummaries, tree, commits, pushed, prs, console>>

\* await logger.log({event: 'agent:error', ...}) inside the catch block, then
\* if (!failure) failure = error.  A throw here rejects the worker's promise.
LogAgentError(i) ==
    /\ w[i].pc = "logAgentError"
    /\ \/ /\ RunLoggerLog("agent:error", i)
          /\ w' = [w EXCEPT ![i].pc = "settled"]
          /\ failure' = IF failure = <<>>
                        THEN <<agentContexts[i].name, w[i].error>>
                        ELSE failure
       \/ /\ w' = [w EXCEPT ![i].pc = "rejected"]
          /\ UNCHANGED <<log, failure>>
    /\ UNCHANGED <<mainState, executionSummaries, tree, commits, pushed, prs, console>>

Worker(i) ==
    \/ LogAgentStart(i)
    \/ RunAgent(i)
    \/ Inspect(i)
    \/ Commit(i)
    \/ Publish(i)
    \/ CreatePullRequest(i)
    \/ LogAgentSuccess(i)
    \/ LogAgentError(i)
    \/ RunPromiseGoesOn(i)
    \/ BudgetElapses(i)
    \/ TimerFires(i)

(***************************************************************************)
(* After the fan-out: Promise.all, the summary, the finish event, the exit.*)
(***************************************************************************)
finalState == <<inputs, requested, selected, runRootCreated, repoInfo,
                worktrees, tree, commits, provisionFailed, agentContexts,
                limit, queue, w, executionSummaries, failure, pushed, prs, console>>

\* The captured failure rethrown right after Promise.all, before the summary
\* and the finish event are written.
AllSettledRethrowFirst ==
    /\ pc = "awaitAll"
    /\ \A i \in DOMAIN w : w[i].pc = "settled"
    /\ pc' = IF failure # <<>> THEN "exit" ELSE "writeSummary"
    /\ UNCHANGED <<finalState, thrown, log, summaryFile>>

\* The fan-out awaited with Promise.race: it goes on once one worker settled.
AllSettledAnyOne ==
    /\ pc = "awaitAll"
    /\ \E i \in DOMAIN w : w[i].pc = "settled"
    /\ pc' = "writeSummary"
    /\ UNCHANGED <<finalState, thrown, log, summaryFile>>

\* Promise.all fulfils once every worker's promise has fulfilled.
AllSettled ==
    /\ pc = "awaitAll"
    /\ \A i \in DOMAIN w : w[i].pc = "settled"
    /\ pc' = "writeSummary"
    /\ UNCHANGED <<finalState, thrown, log, summaryFile>>

\* Promise.all rejects as soon as one worker's promise rejects.
AnyRejected ==
    /\ pc = "awaitAll"
    /\ \E i \in DOMAIN w : w[i].pc = "rejected"
    /\ Abort("ledger")
    /\ UNCHANGED <<finalState, log, summaryFile>>

\* Lines 486-501: the summary object, the entry appended to
\* <repoDir>/.ob1/scratchpad.md (a failed append is swallowed by .catch), and
\* writeJsonFile(summary.json), which may throw.
WriteSummary ==
    /\ pc = "writeSummary"
    /\ \/ tree' = tree \cup {<<repoDir, "ob1">>}
       \/ tree' = tree
    /\ \/ /\ summaryFile' = Append(summaryFile, executionSummaries)
          /\ pc' = "logFinish" /\ thrown' = thrown
       \/ /\ Abort("summary")
          /\ UNCHANGED summaryFile
    /\ UNCHANGED <<inputs, requested, selected, runRootCreated, repoInfo,
                   worktrees, commits, provisionFailed, agentContexts, limit,
                   queue, w, executionSummaries, failure, pushed, prs, log, console>>

\* logger.log({event: failure ? 'finish:with-error' : 'finish', ...})
LogFinish ==
    /\ pc = "logFinish"
    /\ \/ /\ RunLoggerLog(IF failure # <<>> THEN "finish:with-error" ELSE "finish", "run")
          /\ pc' = "exit" /\ thrown' = thrown
       \/ /\ Abort("ledger")
          /\ UNCHANGED log
    /\ UNCHANGED <<finalState, summaryFile>>

\* agent.prUrl ? agent.prUrl : agent.error ? agent.error : 'dry run'
finalLine(agent) ==
    <<agent.agent,
      IF agent.prUrl # "none" THEN agent.prUrl
      ELSE IF agent.error # "none" THEN agent.error
      ELSE "dry run">>

\* Lines 508-518: the final lines, then throw failure or return summary.
Exit ==
    /\ pc = "exit"
    /\ console' = [j \in DOMAIN executionSummaries |->
                      finalLine(executionSummaries[j])]
    /\ IF failure # <<>>
       THEN pc' = "raised" /\ thrown' = failure[2]
       ELSE pc' = "returned" /\ thrown' = thrown
    /\ UNCHANGED <<inputs, requested, selected, runRootCreated, repoInfo,
                   worktrees, tree, commits, provisionFailed, agentContexts,
                   limit, queue, w, executionSummaries, failure, pushed, prs,
                   log, summaryFile>>

Next ==
    \/ AssertAgentEnv
    \/ EnsureCleanRepo
    \/ EnsureDirs
    \/ SelectAgents
    \/ LogStart
    \/ Provision
    \/ Schedule
    \/ Admit
    \/ \E i \in DOMAIN w : Worker(i)
    \/ AllSettled
    \/ AnyRejected
    \/ WriteSummary
    \/ LogFinish
    \/ Exit

Spec == Init /\ [][Next]_vars

(***************************************************************************)
(* Successive runs taking their identifiers: `const taskId = makeTaskId()` *)
(* of each run, with the clock advancing between them.                     *)
(***************************************************************************)
runVars == <<options, env, repoClean, hasRemote, ignoresArtifacts, pc, thrown,
             requested, selected, runRootCreated, repoInfo, log, worktrees,
             tree, commits, provisionFailed, agentContexts, limit, queue, w,
             executionSummaries, failure, summaryFile, pushed, prs, console>>

TaskIdInit ==
    /\ options = [agents |-> <<>>, k |-> 1, dryRun |-> TRUE,
                  allowDirty |-> FALSE, timeoutMs |-> 0]
    /\ env = AllKeys
    /\ repoClean = TRUE
    /\ hasRemote = FALSE
    /\ ignoresArtifacts = FALSE
    /\ pc = "assertAgentEnv"
    /\ thrown = "none"
    /\ requested = <<>>
    /\ selected = <<>>
    /\ runRootCreated = FALSE
    /\ repoInfo = FALSE
    /\ log = <<>>
    /\ worktrees = {}
    /\ tree = {}
    /\ commits = {}
    /\ provisionFailed = 0
    /\ agentContexts = <<>>
    /\ limit = 0
    /\ queue = <<>>
    /\ w = <<>>
    /\ executionSummaries = <<>>
    /\ failure = <<>>
    /\ summaryFile = <<>>
    /\ pushed = {}
    /\ prs = {}
    /\ console = <<>>
    /\ now = [sec |-> 0, ms |-> 0]
    /\ taskIds = <<>>

\* Half a second passes.
Tick ==
    /\ now.sec < MaxSeconds
    /\ now' = IF now.ms = 0
              THEN [now EXCEPT !.ms = 500]
              ELSE [sec |-> now.sec + 1, ms |-> 0]
    /\ UNCHANGED <<runVars, taskIds>>

\* A run starts: const taskId = makeTaskId()
StartRun ==
    /\ Len(taskIds) < MaxRuns
    /\ \E digits \in RandomDigits :
         taskIds' = Append(taskIds, makeTaskId(now, digits))
    /\ UNCHANGED <<runVars, now>>

TaskIdNext ==
    \/ Tick
    \/ StartRun

TaskIdSpec == TaskIdInit /\ [][TaskIdNext]_vars

(***************************************************************************)
(* Properties.                                                             *)
(***************************************************************************)
Terminal == pc \in {"returned", "raised", "aborted"}

WorkersDone == \A i \in DOMAIN w : w[i].pc \in {"settled", "rejected"}

\* The agent list of summary.json as last written.
WrittenAgents == IF summaryFile = <<>> THEN <<>> ELSE summaryFile[Len(summaryFile)]

Occurrences(seq, x) == Cardinality({j \in DOMAIN seq : seq[j] = x})

EntriesOf(seq, agent) == {j \in DOMAIN seq : seq[j].agent = agent}

\* C1: once the run has returned or raised the captured failure, summary.json
\* lists exactly as many entries as there are selected agents, and each
\* selected agent has as many entries as it has places in the selection.
C1_SummaryCompleteness ==
    pc \in {"returned", "raised"} =>
        /\ Len(WrittenAgents) = Len(selected)
        /\ \A a \in Range(selected) :
             Cardinality(EntriesOf(WrittenAgents, a)) = Occurrences(selected, a)

\* C2: when every worker is done and the run has ended without a failed
\* summary write, a worker A that failed leaves every other worker B whose
\* own steps all succeeded with an entry in summary.json that has a commit
\* and no error.
C2_FailSlow ==
    \A a \in DOMAIN w : \A b \in DOMAIN w :
        ( /\ a # b
          /\ Terminal /\ thrown # "summary"
          /\ WorkersDone
          /\ w[a].error # "none"
          /\ w[b].pc = "settled" /\ w[b].error = "none" )
        => \E j \in DOMAIN WrittenAgents :
             /\ WrittenAgents[j].agent = agentContexts[b].name
             /\ WrittenAgents[j].commitSha # "none"
             /\ WrittenAgents[j].error = "none"

\* C3: when runOb1 rethrows the captured agent failure, summary.json has
\* been written with an entry for every selected agent and the
\* finish:with-error event is in run.jsonl.
C3_RaisedAfterPersisted ==
    pc = "raised" =>
        /\ summaryFile # <<>>
        /\ \A i \in DOMAIN selected : EntriesOf(WrittenAgents, selected[i]) # {}
        /\ \E n \in DOMAIN log : log[n] = <<"finish:with-error", "run">>

\* C3 happens: a failure is rethrown in a run of two agents of which one
\* succeeded.
C3_Witness ==
    /\ pc = "raised"
    /\ Len(selected) = 2
    /\ \E j \in DOMAIN WrittenAgents : WrittenAgents[j].error = "none"
    /\ \E j \in DOMAIN WrittenAgents : WrittenAgents[j].error # "none"

\* C4: at no time are more than options.k workers active (started by the
\* limiter and not yet settled), however many agents were requested.
C4_ConcurrencyBound == activeCount <= options.k

\* C4 happens: more agents requested than k, and k workers active at once.
C4_Witness ==
    /\ Len(requested) > options.k
    /\ options.k = MaxK
    /\ activeCount = options.k

\* C5: the contexts of a run have pairwise distinct workspace paths and
\* pairwise distinct branch names.
C5_Isolation ==
    \A i \in DOMAIN agentContexts : \A j \in DOMAIN agentContexts :
        i # j => /\ agentContexts[i].dir # agentContexts[j].dir
                 /\ agentContexts[i].branch # agentContexts[j].branch

\* C6: a failed append to run.jsonl never makes runOb1 throw and never
\* becomes an agent's reported error.
C6_LedgerFailureHarmless ==
    /\ thrown # "ledger"
    /\ \A j \in DOMAIN executionSummaries : executionSummaries[j].error # "ledger"

\* C7: when the run has ended after createWorktree failed for one selected
\* agent, summary.json has a failed entry for that agent and an entry for
\* every other selected agent.
C7_ProvisionFailureIsolated ==
    (provisionFailed # 0 /\ Terminal) =>
        /\ \E j \in DOMAIN WrittenAgents :
             /\ WrittenAgents[j].agent = selected[provisionFailed]
             /\ WrittenAgents[j].error # "none"
        /\ \A i \in DOMAIN selected : EntriesOf(WrittenAgents, selected[i]) # {}

\* C8: if the readiness check of a selected agent fails for a missing
\* credential, runs/<id>/ is never created, no workspace is provisioned and
\* no worker is started.
C8_MissingCredentialAbortsEarly ==
    LET sel == selectedAgents(requestedAgents(options.agents), options.k)
    IN (\E i \in DOMAIN sel : ~checkEnv(sel[i], env)) =>
          /\ ~runRootCreated
          /\ worktrees = {}
          /\ \A i \in DOMAIN w : w[i].pc = "queued"

\* C9: with uncommitted changes in the repository and allow-dirty not set,
\* runs/<id>/ is never created and no workspace is provisioned.
C9_DirtyAbortsEarly ==
    (~repoClean /\ ~options.allowDirty) =>
        /\ ~runRootCreated
        /\ worktrees = {}
        /\ agentContexts = <<>>
        /\ pc \in {"assertAgentEnv", "resolveRepo", "aborted"}

\* C9 happens: the run has aborted on the dirty repository.
C9_Witness ==
    /\ ~repoClean /\ ~options.allowDirty
    /\ pc = "aborted" /\ thrown = "dirty"

\* C10: every summary entry, in memory and in summary.json, has a commit
\* identifier or an error message, and never both.
C10_CommitXorError ==
    /\ \A j \in DOMAIN executionSummaries :
         (executionSummaries[j].commitSha # "none") # (executionSummaries[j].error # "none")
    /\ \A j \in DOMAIN WrittenAgents :
         (WrittenAgents[j].commitSha # "none") # (WrittenAgents[j].error # "none")

\* C10 happens: summary.json holds an entry with a commit and one with an
\* error.
C10_Witness ==
    /\ \E j \in DOMAIN WrittenAgents :
         WrittenAgents[j].commitSha # "none" /\ WrittenAgents[j].error = "none"
    /\ \E j \in DOMAIN WrittenAgents :
         WrittenAgents[j].commitSha = "none" /\ WrittenAgents[j].error # "none"

\* The CLI's run action: process.exitCode = 1 when runOb1 throws, else 0.
exitCode == IF pc \in {"raised", "aborted"} THEN 1 ELSE 0

\* C11: once the run has ended with every worker done (a failed write of
\* summary.json set aside), the exit code is 0 exactly when no summary entry
\* carries an error.
C11_ExitCodeIffNoError ==
    (Terminal /\ w # <<>> /\ WorkersDone /\ thrown # "summary") =>
        ( exitCode = 0
          <=> \A j \in DOMAIN executionSummaries :
                 executionSummaries[j].error = "none" )

C13_DryRunPublishesNothing ==
    options.dryRun =>
        /\ pushed = {}
        /\ prs = {}
        /\ \A j \in DOMAIN executionSummaries : executionSummaries[j].prUrl = "none"
        /\ \A j \in DOMAIN WrittenAgents : WrittenAgents[j].prUrl = "none"

\* The fallback file of context i is in its workspace, uncommitted or
\* committed on its branch.
FallbackFileCreated(i) ==
    \/ <<agentContexts[i].dir, "fallback">> \in tree
    \/ agentContexts[i].branch \in commits

ClosingEvents == {n \in DOMAIN log : log[n][1] \in {"finish", "finish:with-error"}}

\* C16: a run that logged its start event and has ended has written
\* summary.json and has exactly one closing event in run.jsonl, as its last
\* event: finish if no summary entry carries an error, finish:with-error
\* otherwise.
C16_OneClosingEvent ==
    (Terminal /\ \E n \in DOMAIN log : log[n] = <<"start", "run">>) =>
        /\ summaryFile # <<>>
        /\ Cardinality(ClosingEvents) = 1
        /\ log[Len(log)][1] =
             IF \A j \in DOMAIN executionSummaries : executionSummaries[j].error = "none"
             THEN "finish"
             ELSE "finish:with-error"

\* The agent:error events of run.jsonl; a failed worker settles with the
\* append of its event, so their order is the settlement order of the
\* failed workers.
ErrorEvents == {n \in DOMAIN log : log[n][1] = "agent:error"}

FirstErrorEvent == CHOOSE n \in ErrorEvents : \A m \in ErrorEvents : n <= m

AskedFor == IF options.agents # <<>> THEN options.agents ELSE ALL_AGENTS

\* The places of AskedFor that hold a known agent.
KnownPlaces == {j \in DOMAIN AskedFor : \E n \in DOMAIN ALL_AGENTS : ALL_AGENTS[n] = AskedFor[j]}

\* The i-th of those places, in the order of the list.
NthKnownPlace(i) ==
    CHOOSE j \in KnownPlaces : Cardinality({m \in KnownPlaces : m < j}) = i - 1

\* The selection has been made: runOb1 is past the slice.
SelectionMade ==
    /\ pc \notin {"assertAgentEnv", "resolveRepo", "ensureDirs", "selectAgents"}
    /\ thrown \notin {"env", "repo", "dirty", "noAgents"}

C19_BothRunSequentially ==
    (Len(requested) = 2 /\ options.k = 1) =>
        /\ activeCount <= 1
        /\ pc \in {"returned", "raised"} =>
             /\ Len(w) = 2
             /\ \A i \in DOMAIN w : w[i].pc = "settled"
             /\ Len(WrittenAgents) = 2

\* C20: no agent has more summary entries than it has places in the
\* selection: an agent whose entry has been appended never gets another one.
C20_AtMostOnce ==
    \A a \in Range(selected) :
        Cardinality(EntriesOf(executionSummaries, a)) <= Occurrences(selected, a)

\* C21: when every worker is done and the run has ended without a failed
\* summary write, a worker whose execution timed out has its timeout entry
\* in summary.json, and every other worker whose own steps all succeeded has
\* an entry there with a commit and no error.
C21_TimeoutIsolated ==
    \A a \in DOMAIN w :
        ( /\ Terminal /\ thrown # "summary"
          /\ WorkersDone
          /\ w[a].error = "timeout" )
        => /\ \E j \in DOMAIN WrittenAgents :
                /\ WrittenAgents[j].agent = agentContexts[a].name
                /\ WrittenAgents[j].error = "timeout"
           /\ \A b \in DOMAIN w :
                (b # a /\ w[b].pc = "settled" /\ w[b].error = "none") =>
                    \E j \in DOMAIN WrittenAgents :
                        /\ WrittenAgents[j].agent = agentContexts[b].name
                        /\ WrittenAgents[j].commitSha # "none"
                        /\ WrittenAgents[j].error = "none"

\* C22: once the timeout of a worker's execution has been reported, nothing
\* of the agent's work is left running and the agent has written nothing
\* more to its workspace.
C22_TimeoutCancelsWork ==
    \A i \in DOMAIN w : w[i].error = "timeout" => w[i].runPromise = "none"

\* C23: no execution is still under way when its budget has passed.
C23_SettlesWithinBudget ==
    \A i \in DOMAIN w : ~(w[i].pc = "run" /\ w[i].overdue)

\* C24: with a timeout override given, an execution that timed out was
\* bounded by the override.
C24_OverrideBoundsExecution ==
    \A i \in DOMAIN w :
        (options.timeoutMs # 0 /\ w[i].error = "timeout") =>
            timeoutMsOf(agentContexts[i].name) = options.timeoutMs

\* C25: when the run is aborted for a missing credential, a credential is
\* missing that the run needs for the agents it would select (theirs, or
\* GITHUB_TOKEN).
C25_UnselectedCredentialsNotNeeded ==
    thrown = "env" =>
        ~assertAgentEnv(selectedAgents(requestedAgents(options.agents), options.k), env)

\* C26: when dry-run is not set, a pull request is opened only for a pushed
\* branch, and every agent other than qa that completed its try block has
\* its branch pushed, its pull request opened and the PR URL in its success
\* entry, in memory and in summary.json.
C26_PublishedWithPrUrl ==
    ~options.dryRun =>
        /\ prs \subseteq pushed
        /\ \A i \in DOMAIN w :
             ( /\ agentContexts[i].name # "qa"
               /\ w[i].pc \in {"logAgentSuccess", "settled"}
               /\ w[i].error = "none" ) =>
                 /\ agentContexts[i].branch \in pushed
                 /\ agentContexts[i].branch \in prs
                 /\ w[i].prUrl # "none"
        /\ \A j \in DOMAIN executionSummaries :
             (executionSummaries[j].agent # "qa" /\ executionSummaries[j].error = "none") =>
                 /\ executionSummaries[j].prUrl # "none"
                 /\ executionSummaries[j].branch \in prs
        /\ \A j \in DOMAIN WrittenAgents :
             (WrittenAgents[j].agent # "qa" /\ WrittenAgents[j].error = "none") =>
                 WrittenAgents[j].prUrl # "none"

\* C26 happens: a run without dry-run returned with the PR URL of a pushed
\* branch in summary.json.
C26_Witness ==
    /\ ~options.dryRun
    /\ pc = "returned"
    /\ \E j \in DOMAIN WrittenAgents :
         /\ WrittenAgents[j].prUrl # "none"
         /\ WrittenAgents[j].branch \in pushed

\* C27: the branch of the qa agent is never pushed and never gets a pull
\* request, with dry-run or without, and every success entry of qa, in memory
\* and in summary.json, has no PR URL.
C27_QaNeverPublished ==
    /\ \A i \in DOMAIN agentContexts :
         agentContexts[i].name = "qa" =>
             /\ agentContexts[i].branch \notin pushed
             /\ agentContexts[i].branch \notin prs
             /\ i \in DOMAIN w =>
                  (w[i].pc # "createPullRequest" /\ w[i].prUrl = "none")
    /\ \A j \in DOMAIN executionSummaries :
         (executionSummaries[j].agent = "qa" /\ executionSummaries[j].error = "none") =>
             executionSummaries[j].prUrl = "none"
    /\ \A j \in DOMAIN WrittenAgents :
         (WrittenAgents[j].agent = "qa" /\ WrittenAgents[j].error = "none") =>
             WrittenAgents[j].prUrl = "none"

\* C27 happens: a run without dry-run, on a repository with a remote,
\* returned with a success entry of qa in summary.json.
C27_Witness ==
    /\ ~options.dryRun
    /\ repoInfo
    /\ pc = "returned"
    /\ \E j \in DOMAIN WrittenAgents :
         /\ WrittenAgents[j].agent = "qa"
         /\ WrittenAgents[j].error = "none"
         /\ WrittenAgents[j].commitSha # "none"

\* C28: in a dry run the missing remote never stops the run, and every agent
\* that completed its try block has a commit on its branch: its success
\* entry, in memory and in summary.json, has a commit id, no error and no
\* PR URL.
C28_DryRunCommitsLocally ==
    options.dryRun =>
        /\ thrown # "noRemote"
        /\ \A i \in DOMAIN w :
             (w[i].pc \in {"logAgentSuccess", "settled"} /\ w[i].error = "none") =>
                 /\ w[i].commitSha # "none"
                 /\ agentContexts[i].branch \in commits
        /\ \A j \in DOMAIN executionSummaries :
             executionSummaries[j].error = "none" =>
                 /\ executionSummaries[j].commitSha # "none"
                 /\ executionSummaries[j].branch \in commits
                 /\ executionSummaries[j].prUrl = "none"
        /\ \A j \in DOMAIN WrittenAgents :
             WrittenAgents[j].error = "none" =>
                 WrittenAgents[j].commitSha # "none"

\* C28 happens: a dry run of a repository without a remote returned with a
\* committed success entry in summary.json.
C28_Witness ==
    /\ options.dryRun
    /\ ~hasRemote
    /\ pc = "returned"
    /\ \E j \in DOMAIN WrittenAgents :
         /\ WrittenAgents[j].error = "none"
         /\ WrittenAgents[j].commitSha # "none"
         /\ WrittenAgents[j].branch \in commits

\* C29: createWorktree never fails on what an earlier run left at its path,
\* and every provisioned context has exactly one registered worktree at its
\* path, on its branch, with nothing of the leftovers in it.
C29_ProvisionOverLeftovers ==
    /\ thrown # "exists"
    /\ \A i \in DOMAIN agentContexts :
         /\ Cardinality({x \in worktrees : x[1] = agentContexts[i].dir}) = 1
         /\ <<agentContexts[i].dir, agentContexts[i].branch>> \in worktrees
         /\ <<agentContexts[i].dir, "residue">> \notin tree

\* C30: a repository that was clean when the run started has a clean main
\* checkout at every point of the run and after it: git status of repoDir
\* shows no file written by the run.
C30_MainCheckoutStaysClean ==
    repoClean => status(tree, repoDir) = {}

\* C31: two different runs never have the same run identifier, and so never
\* the same workspace path or branch name for an agent, even when both read
\* the clock in the same second.
C31_RunsNeverCollide ==
    \A i \in DOMAIN taskIds : \A j \in DOMAIN taskIds :
        i # j =>
            /\ taskIds[i] # taskIds[j]
            /\ \A n \in DOMAIN ALL_AGENTS :
                 /\ worktreeDirIn(ALL_AGENTS[n], taskIds[i])
                      # worktreeDirIn(ALL_AGENTS[n], taskIds[j])
                 /\ branchIn(ALL_AGENTS[n], taskIds[i])
                      # branchIn(ALL_AGENTS[n], taskIds[j])

\* C32: once the run has returned or raised the captured failure, one final
\* line has been printed per place of each selected agent: the PR URL of an
\* entry that has one, the error of an entry that failed, and the dry-run
\* marker for the others, which are only found in a dry run.
C32_FinalLinePerAgent ==
    pc \in {"returned", "raised"} =>
        /\ Len(console) = Len(selected)
        /\ \A a \in Range(selected) :
             Cardinality({j \in DOMAIN console : console[j][1] = a})
                 = Occurrences(selected, a)
        /\ \A j \in DOMAIN console :
             console[j][2] = "dry run" => options.dryRun

\* C33: the steps of one agent's execution happen in order: nothing is
\* pushed for an agent before a commit exists on its branch, no pull request
\* is opened before its branch is pushed, its worker takes no step of the
\* try block before agent:start is logged, and when its terminal event is
\* logged its execute step is over.
C33_StepsInOrder ==
    \A i \in DOMAIN w :
        LET branch == agentContexts[i].branch
            logged(event) == \E n \in DOMAIN log : log[n] = <<event, i>>
        IN /\ (branch \in pushed \/ baseBranchOf(branch) \in pushed) =>
                  branch \in commits
           /\ branch \in prs => branch \in pushed
           /\ w[i].pc \in {"run", "inspect", "commit", "publish",
                         "createPullRequest", "logAgentSuccess"} =>
                  logged("agent:start")
           /\ (logged("agent:success") \/ logged("agent:error")) =>
                  w[i].runPromise # "running"

\* C34: every entry without an error, in memory and in summary.json, has a
\* commit identifier and its branch carries a commit of non-ignored files;
\* a worker that found nothing committable after the fallback, or got no
\* commit identifier, has an entry with that error and no commit identifier.
C34_SuccessOnlyWithCommit ==
    /\ \A j \in DOMAIN executionSummaries :
         executionSummaries[j].error = "none" =>
             /\ executionSummaries[j].commitSha # "none"
             /\ executionSummaries[j].changedFiles > 0
             /\ executionSummaries[j].branch \in commits
    /\ \A j \in DOMAIN WrittenAgents :
         WrittenAgents[j].error = "none" => WrittenAgents[j].commitSha # "none"
    /\ \A i \in DOMAIN w :
         w[i].error \in {"nochange", "commit"} =>
             /\ w[i].commitSha = "none"
             /\ \E j \in DOMAIN executionSummaries :
                  /\ executionSummaries[j].agent = agentContexts[i].name
                  /\ executionSummaries[j].error = w[i].error
                  /\ executionSummaries[j].commitSha = "none"

\* C34 happens: the run raised the failure of an agent that had nothing to
\* commit after the fallback, and summary.json reports it with the error.
C34_Witness ==
    /\ pc = "raised"
    /\ \E i \in DOMAIN w : w[i].error = "nochange" /\ w[i].fallbackFile
    /\ \E j \in DOMAIN WrittenAgents :
         WrittenAgents[j].error = "nochange" /\ WrittenAgents[j].commitSha = "none"

\* C35: when runOb1 has returned or thrown, no worker is still queued or
\* under way and no agent's execution is still running.
C35_NoReturnWhileRunning ==
    Terminal =>
        \A i \in DOMAIN w :
            /\ w[i].pc \in {"settled", "rejected"}
            /\ w[i].runPromise # "running"

\* The terminal events of worker i in run.jsonl.
TerminalEvents(i) ==
    {n \in DOMAIN log : log[n][1] \in {"agent:success", "agent:error"} /\ log[n][2] = i}

\* C36: in run.jsonl start is the first event, every agent:success or
\* agent:error event comes after the agent:start event of the same agent, a
\* closing event is the last event, and once the run has ended every
\* selected agent has exactly one terminal event.
C36_EventLogShape ==
    /\ log # <<>> => log[1] = <<"start", "run">>
    /\ \A n \in DOMAIN log :
         log[n][1] \in {"agent:success", "agent:error"} =>
             \E m \in 1..(n - 1) : log[m] = <<"agent:start", log[n][2]>>
    /\ \A n \in ClosingEvents : n = Len(log)
    /\ (Terminal /\ log # <<>>) =>
          \A i \in DOMAIN selected : Cardinality(TerminalEvents(i)) = 1

\* C37: the workers exist only when the credential pre-flight has passed,
\* and then no worker's own readiness check fails: no agent is reported with
\* a missing credential after the workspaces were created.
C37_ReadinessFollowsPreflight ==
    /\ \A i \in DOMAIN w : w[i].error # "env"
    /\ \A j \in DOMAIN executionSummaries : executionSummaries[j].error # "env"

\* C38: a worker has a fallback file only if its agent's execution changed
\* no file outside .ob1/, whether the agent left its changes uncommitted or
\* committed them on its branch.
C38_FallbackOnlyWithoutChanges ==
    \A i \in DOMAIN w : w[i].fallbackFile => ~w[i].edited

\* C39: a run that threw because no requested name is a known agent, or
\* because the repository has no remote in a run without dry-run, has
\* created neither runs/<id>/ nor a workspace.
C39_LateGatesLeaveNothing ==
    thrown \in {"noAgents", "noRemote"} =>
        /\ ~runRootCreated
        /\ worktrees = {}
        /\ agentContexts = <<>>

\* C40: once the execute step of a worker is over, no timeout timer armed
\* for that execution is still pending.
C40_NoTimerLeftArmed ==
    \A i \in DOMAIN w :
        w[i].pc \notin {"queued", "logAgentStart", "run"} => w[i].timer # "armed"
====
